---- MODULE Spec2Model ----
(***************************************************************************)
(* Verification model of the rundler user-operation core (v0.6):           *)
(*   - the eth-namespace error taxonomy and its conversion to the wire     *)
(*     error (src/src/rpc/eth/error.rs),                                   *)
(*   - the user operation hash, the signature-clearing transform and the   *)
(*     gas-field fill policies                                             *)
(*     (src/crates/types/src/user_operation/v0_6.rs).                      *)
(*                                                                         *)
(* Byte strings are sequences of naturals 0..255.  A U256 is its 32-byte   *)
(* big-endian representation, an Address its 20 bytes.  keccak256 is a     *)
(* collision-free symbolic digest of its pre-image.                        *)
(***************************************************************************)
EXTENDS Integers, Sequences, FiniteSets, TLC

VARIABLES
    data,       \* error.rs: the payload struct last built, with the helper that built it
    error,      \* error.rs: the EthRpcError raised
    rpc,        \* error.rs: the wire error the EthRpcError was converted to
    op,         \* v0_6.rs: the UserOperation at hand
    hashed,     \* v0_6.rs: the last hash() call: its operation, arguments and digest
    partial,    \* v0_6.rs: the UserOperationOptionalGas a client submitted
    caps,       \* v0_6.rs: the configured max_call_gas and max_verification_gas
    policy,     \* v0_6.rs: the fill policy that produced op
    rand,       \* v0_6.rs: the bytes the random source gave the last random_fill
    origin,     \* v0_6.rs: where partial came from: the client, or a resubmitted output
    rounds,     \* v0_6.rs: how many times an output was resubmitted as input
    ov,         \* v0_6.rs: the byte-cost model GasOverheads::default() returns
    out,        \* v0_6.rs: the last accounting or entity call on op, and what it returned
    wallet      \* fund.rs, scroll.rs: the createWallet request being served

errVars == <<data, error, rpc>>
opVars == <<op, hashed>>
fillVars == <<partial, caps, policy, rand, origin, rounds, ov>>
vars ==
    <<data, error, rpc, op, hashed, partial, caps, policy, rand, origin, rounds, ov, out,
      wallet>>

(***************************************************************************)
(* Values shared by both parts                                             *)
(***************************************************************************)

\* Rust's Option<T>
None == [some |-> FALSE]
Some(x) == [some |-> TRUE, val |-> x]

\* a variable that holds nothing yet
NoValue == [kind |-> "nothing"]

\* vec![b; n]
Repeat(b, n) == [i \in 1..n |-> b]

SetMin(S) == CHOOSE i \in S : \A j \in S : i <= j

U256Bytes == 32
AddressBytes == 20

\* U256::from_big_endian(slice), for slices of at most 32 bytes
from_big_endian(slice) == Repeat(0, U256Bytes - Len(slice)) \o slice

\* U256::from(n) for a small literal n (n < 2^31)
U256From(n) ==
    from_big_endian([i \in 1..4 |-> (n \div (256 ^ (4 - i))) % 256])

U256_MAX == Repeat(255, U256Bytes)
U256_ZERO == Repeat(0, U256Bytes)

\* a < b on U256: big-endian byte strings of equal length compare lexicographically
U256Lt(a, b) ==
    LET d == {i \in 1..U256Bytes : a[i] # b[i]}
    IN  d # {} /\ a[SetMin(d)] < b[SetMin(d)]

\* Ord::min(a, b)
U256Min(a, b) == IF U256Lt(b, a) THEN b ELSE a

\* sample addresses: 20 bytes each
Addr(b) == Repeat(b, AddressBytes)
Addresses == {Addr(17), Addr(34)}

(***************************************************************************)
(* src/src/rpc/eth/error.rs                                                *)
(***************************************************************************)

\* the numeric code constants in scope of error.rs: the two imported from
\* jsonrpsee (lines 5, 12-13) and the eight defined on lines 16-23
ErrorCodes ==
    [ INVALID_PARAMS_CODE                 |-> -32602,
      INTERNAL_ERROR_CODE                 |-> -32603,
      ENTRYPOINT_VALIDATION_REJECTED_CODE |-> -32500,
      PAYMASTER_VALIDATION_REJECTED_CODE  |-> -32501,
      OPCODE_VIOLATION_CODE               |-> -32502,
      OUT_OF_TIME_RANGE_CODE              |-> -32503,
      THROTTLED_OR_BANNED_CODE            |-> -32504,
      STAKE_TOO_LOW_CODE                  |-> -32505,
      UNSUPORTED_AGGREGATOR_CODE          |-> -32506,
      SIGNATURE_CHECK_FAILED_CODE         |-> -32507 ]

\* the variants of enum EthRpcError, spelled as the enum declares them
EthRpcError ==
    { "InvalidParams", "EntrypointValidationRejected", "PaymasterValidatoinRejected",
      "OpcodeViolation", "OutOfTimeRange", "ThrottledOrBanned", "StakeTooLow",
      "UnsupportedAggregator", "SignatureCheckFailed", "Internal" }

\* ThrottledOrBannedData's construction helpers
ThrottledOrBannedData_paymaster(paymaster) ==
    [paymaster |-> Some(paymaster), aggregator |-> None, factory |-> None]

ThrottledOrBannedData_aggregator(aggregator) ==
    [paymaster |-> None, aggregator |-> Some(aggregator), factory |-> None]

ThrottledOrBannedData_factory(factory) ==
    [paymaster |-> None, aggregator |-> None, factory |-> Some(factory)]

\* StakeTooLowData's construction helpers
StakeTooLowData_paymaster(paymaster, minimum_stake, minimum_unstake_delay) ==
    [paymaster |-> Some(paymaster), aggregator |-> None, factory |-> None,
     minimum_stake |-> minimum_stake, minimum_unstake_delay |-> minimum_unstake_delay]

\* the aggregator helper written by copying the paymaster helper and renaming
\* only its parameter
Mut_StakeTooLowData_aggregator(aggregator, minimum_stake, minimum_unstake_delay) ==
    [paymaster |-> Some(aggregator), aggregator |-> None, factory |-> None,
     minimum_stake |-> minimum_stake, minimum_unstake_delay |-> minimum_unstake_delay]

StakeTooLowData_aggregator(aggregator, minimum_stake, minimum_unstake_delay) ==
    [paymaster |-> None, aggregator |-> Some(aggregator), factory |-> None,
     minimum_stake |-> minimum_stake, minimum_unstake_delay |-> minimum_unstake_delay]

StakeTooLowData_factory(factory, minimum_stake, minimum_unstake_delay) ==
    [paymaster |-> None, aggregator |-> None, factory |-> Some(factory),
     minimum_stake |-> minimum_stake, minimum_unstake_delay |-> minimum_unstake_delay]

\* struct literals of the three payload structs that have no helper
PaymasterValidationRejectedData(paymaster, reason) ==
    [paymaster |-> paymaster, reason |-> reason]

OutOfTimeRangeData(valid_until, valid_after, paymaster) ==
    [valid_until |-> valid_until, valid_after |-> valid_after, paymaster |-> paymaster]

UnsupportedAggregatorData(aggregator) ==
    [aggregator |-> aggregator]

\* serde's derived Serialize of each payload struct: a JSON object keyed by the
\* (renamed) field names; a skipped field is left out, an Option keeps its shape
JsonOption(o) == IF o.some THEN [json |-> "value", of |-> o.val] ELSE [json |-> "null"]

Serialize(type, d) ==
    CASE type = "PaymasterValidationRejectedData" ->
            [paymaster |-> d.paymaster]
      [] type = "OutOfTimeRangeData" ->
            [validUntil |-> d.valid_until, validAfter |-> d.valid_after,
             paymaster |-> JsonOption(d.paymaster)]
      [] type = "ThrottledOrBannedData" ->
            [paymaster |-> JsonOption(d.paymaster), aggregator |-> JsonOption(d.aggregator),
             factory |-> JsonOption(d.factory)]
      [] type = "StakeTooLowData" ->
            [paymaster |-> JsonOption(d.paymaster), aggregator |-> JsonOption(d.aggregator),
             factory |-> JsonOption(d.factory), minimumStake |-> d.minimum_stake,
             minimumUnstakeDelay |-> d.minimum_unstake_delay]
      [] type = "UnsupportedAggregatorData" ->
            [aggregator |-> d.aggregator]

\* thiserror's Display of an EthRpcError (the #[error(...)] attributes): the
\* message is the sequence of its literal and interpolated pieces
to_string(e) ==
    CASE e.variant = "InvalidParams" -> <<"invalid parameters: ", "\"", e.payload, "\"">>
      [] e.variant = "EntrypointValidationRejected" -> <<e.payload>>
      [] e.variant = "PaymasterValidatoinRejected" -> <<e.payload.reason>>
      [] e.variant = "OpcodeViolation" -> <<"opcode violation: ", e.payload>>
      [] e.variant = "OutOfTimeRange" -> <<"operation is out of time range">>
      [] e.variant = "ThrottledOrBanned" -> <<"entity throttled or banned">>
      [] e.variant = "StakeTooLow" -> <<"entity stake/unstake delay too low">>
      [] e.variant = "UnsupportedAggregator" -> <<"unsupported aggregator">>
      [] e.variant = "SignatureCheckFailed" -> <<"signature check failed">>
      [] e.variant = "Internal" -> <<e.payload>>

\* ErrorObject::owned(code, msg, data) inside RpcError::Call(CallError::Custom(..))
create_rpc_err(code, msg, d) ==
    [kind |-> "Call", code |-> code, message |-> msg, data |-> d]

rpc_err(code, msg) == create_rpc_err(code, msg, None)

rpc_err_with_data(code, msg, d) == create_rpc_err(code, msg, Some(d))

\* the arms of the match in From<EthRpcError> for RpcError, in source order:
\* the variant each pattern names, the code constant it passes, whether it
\* calls rpc_err_with_data, and where its message comes from
MatchArms ==
    << [pattern |-> "InvalidParams", code |-> "INVALID_PARAMS_CODE",
        with_data |-> FALSE, msg |-> "payload"],
       [pattern |-> "ValidationRejected", code |-> "VALIDATION_REJECTED_CODE",
        with_data |-> FALSE, msg |-> "to_string"],
       [pattern |-> "PaymasterRejected", code |-> "PAYMASTER_REJECTED_CODE",
        with_data |-> TRUE, msg |-> "to_string"],
       [pattern |-> "OpcodeViolation", code |-> "OPCODE_VIOLATION_CODE",
        with_data |-> FALSE, msg |-> "to_string"],
       [pattern |-> "OutOfTimeRange", code |-> "OUT_OF_TIME_RANGE_CODE",
        with_data |-> TRUE, msg |-> "to_string"],
       [pattern |-> "ThrottledOrBanned", code |-> "THROTTLED_OR_BANNED_CODE",
        with_data |-> TRUE, msg |-> "to_string"],
       [pattern |-> "StakeTooLow", code |-> "STAKE_TOO_LOW_CODE",
        with_data |-> TRUE, msg |-> "to_string"],
       [pattern |-> "UnsupportedAggregator", code |-> "UNSUPORTED_AGGREGATOR_CODE",
        with_data |-> TRUE, msg |-> "to_string"],
       [pattern |-> "SignatureCheckFailed", code |-> "SIGNATURE_CHECK_FAILED_CODE",
        with_data |-> FALSE, msg |-> "to_string"],
       [pattern |-> "Internal", code |-> "INTERNAL_ERROR_CODE",
        with_data |-> FALSE, msg |-> "payload"] >>

\* what the conversion yields where the source defines none: no arm names the
\* variant, or the arm's code constant is not defined
NoRpcError == [kind |-> "NoConversion"]

\* From<EthRpcError> for RpcError: the first arm whose pattern names the variant
From(e) ==
    LET arms == {i \in DOMAIN MatchArms : MatchArms[i].pattern = e.variant}
    IN  IF arms = {} THEN NoRpcError
        ELSE LET arm == MatchArms[SetMin(arms)]
                 msg == IF arm.msg = "payload" THEN <<e.payload>> ELSE to_string(e)
             IN  IF arm.code \notin DOMAIN ErrorCodes THEN NoRpcError
                 ELSE IF arm.with_data
                      THEN rpc_err_with_data(ErrorCodes[arm.code], msg,
                                             Serialize(e.type, e.payload))
                      ELSE rpc_err(ErrorCodes[arm.code], msg)

\* ---- inputs of the error part ----
Reasons == {"AA33 reverted", "sender banned"}
Amounts == {U256From(1), U256From(86400)}

\* ---- actions of the error part ----

\* a validation stage builds a ThrottledOrBannedData with one of the helpers
BuildThrottledOrBanned ==
    /\ \E a \in Addresses :
         \/ data' = [type |-> "ThrottledOrBannedData", helper |-> "paymaster",
                     address |-> a, value |-> ThrottledOrBannedData_paymaster(a)]
         \/ data' = [type |-> "ThrottledOrBannedData", helper |-> "aggregator",
                     address |-> a, value |-> ThrottledOrBannedData_aggregator(a)]
         \/ data' = [type |-> "ThrottledOrBannedData", helper |-> "factory",
                     address |-> a, value |-> ThrottledOrBannedData_factory(a)]
    /\ UNCHANGED <<error, rpc, opVars, fillVars, out, wallet>>

\* a validation stage builds a StakeTooLowData with one of the helpers
BuildStakeTooLow ==
    /\ \E a \in Addresses, s \in Amounts, u \in Amounts :
         \/ data' = [type |-> "StakeTooLowData", helper |-> "paymaster", address |-> a,
                     minimum_stake |-> s, minimum_unstake_delay |-> u,
                     value |-> StakeTooLowData_paymaster(a, s, u)]
         \/ data' = [type |-> "StakeTooLowData", helper |-> "aggregator", address |-> a,
                     minimum_stake |-> s, minimum_unstake_delay |-> u,
                     value |-> StakeTooLowData_aggregator(a, s, u)]
         \/ data' = [type |-> "StakeTooLowData", helper |-> "factory", address |-> a,
                     minimum_stake |-> s, minimum_unstake_delay |-> u,
                     value |-> StakeTooLowData_factory(a, s, u)]
    /\ UNCHANGED <<error, rpc, opVars, fillVars, out, wallet>>

\* a validation stage builds one of the payload structs that have no helper
BuildOtherData ==
    /\ \/ \E a \in Addresses, r \in Reasons :
            data' = [type |-> "PaymasterValidationRejectedData", helper |-> "literal",
                     value |-> PaymasterValidationRejectedData(a, r)]
       \/ \E vu \in Amounts, va \in Amounts, p \in {None} \cup {Some(a) : a \in Addresses} :
            data' = [type |-> "OutOfTimeRangeData", helper |-> "literal",
                     value |-> OutOfTimeRangeData(vu, va, p)]
       \/ \E a \in Addresses :
            data' = [type |-> "UnsupportedAggregatorData", helper |-> "literal",
                     value |-> UnsupportedAggregatorData(a)]
    /\ UNCHANGED <<error, rpc, opVars, fillVars, out, wallet>>

\* the variant that carries each payload struct
VariantOf(type) ==
    CASE type = "PaymasterValidationRejectedData" -> "PaymasterValidatoinRejected"
      [] type = "OutOfTimeRangeData" -> "OutOfTimeRange"
      [] type = "ThrottledOrBannedData" -> "ThrottledOrBanned"
      [] type = "StakeTooLowData" -> "StakeTooLow"
      [] type = "UnsupportedAggregatorData" -> "UnsupportedAggregator"

\* an EthRpcError is raised: a variant carrying the payload struct just built,
\* a variant carrying a string, or the unit variant
Raise ==
    /\ \/ /\ data # NoValue
          /\ error' = [variant |-> VariantOf(data.type), type |-> data.type,
                       payload |-> data.value]
       \/ \E v \in {"InvalidParams", "EntrypointValidationRejected", "OpcodeViolation",
                    "Internal"}, r \in Reasons :
            error' = [variant |-> v, type |-> "String", payload |-> r]
       \/ error' = [variant |-> "SignatureCheckFailed", type |-> "unit", payload |-> "unit"]
    /\ rpc' = NoValue
    /\ UNCHANGED <<data, opVars, fillVars, out, wallet>>

\* the raised error is converted to the wire error
Convert ==
    /\ error # NoValue
    /\ rpc = NoValue
    /\ rpc' = From(error)
    /\ UNCHANGED <<data, error, opVars, fillVars, out, wallet>>

ErrInit ==
    /\ data = NoValue
    /\ error = NoValue
    /\ rpc = NoValue
    /\ op = NoValue
    /\ hashed = NoValue
    /\ partial = NoValue
    /\ caps = NoValue
    /\ policy = "none"
    /\ rand = NoValue
    /\ origin = NoValue
    /\ rounds = 0
    /\ ov = NoValue
    /\ out = NoValue
    /\ wallet = NoValue

ErrNext ==
    \/ BuildThrottledOrBanned
    \/ BuildStakeTooLow
    \/ BuildOtherData
    \/ Raise
    \/ Convert

SpecErr == ErrInit /\ [][ErrNext]_vars

(***************************************************************************)
(* Claims about the error taxonomy                                         *)
(***************************************************************************)

\* the code table of the specification, keyed by the enum's variants (the enum
\* spells PaymasterValidationRejected as PaymasterValidatoinRejected)
CodeTable ==
    [ InvalidParams                |-> -32602,
      EntrypointValidationRejected |-> -32500,
      PaymasterValidatoinRejected  |-> -32501,
      OpcodeViolation              |-> -32502,
      OutOfTimeRange               |-> -32503,
      ThrottledOrBanned            |-> -32504,
      StakeTooLow                  |-> -32505,
      UnsupportedAggregator        |-> -32506,
      SignatureCheckFailed         |-> -32507,
      Internal                     |-> -32603 ]

\* C1: converting an EthRpcError yields, for every variant of the enum, a wire
\* error (the mapping handles the variant) whose code is the variant's code of
\* the table, and no two variants share a code.
C1_EveryVariantYieldsItsCode ==
    /\ rpc # NoValue =>
         /\ rpc.kind = "Call"
         /\ rpc.code = CodeTable[error.variant]
    /\ \A v, w \in EthRpcError : CodeTable[v] = CodeTable[w] => v = w

HasPayload(r) == r.kind = "Call" /\ r.data.some

VariantsWithPayload ==
    { "PaymasterValidatoinRejected", "OutOfTimeRange", "ThrottledOrBanned", "StakeTooLow",
      "UnsupportedAggregator" }

\* C2: the wire error carries a data payload exactly when the variant is
\* PaymasterValidationRejected, OutOfTimeRange, ThrottledOrBanned, StakeTooLow
\* or UnsupportedAggregator; for PaymasterValidationRejected the payload holds
\* the paymaster address only and the reason is the message.
C2_PayloadExactlyForDataVariants ==
    rpc # NoValue =>
      /\ HasPayload(rpc) <=> error.variant \in VariantsWithPayload
      /\ error.variant = "PaymasterValidatoinRejected" =>
           /\ rpc.data.val = [paymaster |-> error.payload.paymaster]
           /\ rpc.message = <<error.payload.reason>>

EntityFields == {"paymaster", "aggregator", "factory"}

\* C3: a ThrottledOrBannedData or StakeTooLowData built by a helper has exactly
\* one of paymaster, aggregator, factory set: the one the helper names, holding
\* the helper's address; the other two are absent, and a StakeTooLowData's
\* minimum_stake and minimum_unstake_delay are the helper's arguments.
C3_HelperSetsExactlyOneEntity ==
    (data # NoValue /\ data.helper \in EntityFields) =>
      /\ data.value[data.helper] = Some(data.address)
      /\ \A f \in EntityFields \ {data.helper} : data.value[f] = None
      /\ Cardinality({f \in EntityFields : data.value[f].some}) = 1
      /\ data.type = "StakeTooLowData" =>
           /\ data.value.minimum_stake = data.minimum_stake
           /\ data.value.minimum_unstake_delay = data.minimum_unstake_delay

\* C3's case: the aggregator helper of StakeTooLowData has built a value, with a
\* stake different from the delay, and the value was raised and converted
C3_Witness ==
    /\ data # NoValue
    /\ data.type = "StakeTooLowData"
    /\ data.helper = "aggregator"
    /\ data.minimum_stake # data.minimum_unstake_delay
    /\ error # NoValue
    /\ error.variant = "StakeTooLow"
    /\ error.payload = data.value
    /\ rpc # NoValue

(***************************************************************************)
(* src/crates/types/src/user_operation/v0_6.rs: hash and clear_signature   *)
(***************************************************************************)

\* a byte string of n bytes that repeats pattern
Cycle(pattern, n) == [i \in 1..n |-> pattern[((i - 1) % Len(pattern)) + 1]]

\* a u64 (8 big-endian bytes) from a small literal
U64From(n) == Repeat(0, 4) \o [i \in 1..4 |-> (n \div (256 ^ (4 - i))) % 256]

\* u64 -> U256 (chain_id.into())
U256FromU64(x) == from_big_endian(x)

\* ethers::utils::keccak256: a 32-byte digest, collision-free: the digest
\* stands for its pre-image and for nothing else
keccak256(bytes) == [keccak256 |-> bytes]

\* ethers::abi::Token, the three kinds used
Token_Address(a) == [token |-> "Address", v |-> a]
Token_Uint(n) == [token |-> "Uint", v |-> n]
Token_FixedBytes(b) == [token |-> "FixedBytes", v |-> b]

\* the 32-byte word the ABI encoding gives a static token: an address is
\* left-padded with zeros, a uint is its 32 big-endian bytes, 32 fixed bytes
\* are kept; the token's kind is not encoded
AbiWord(t) ==
    CASE t.token = "Address" -> Repeat(0, U256Bytes - AddressBytes) \o t.v
      [] t.token = "Uint" -> t.v
      [] t.token = "FixedBytes" -> t.v

\* ethers::abi::encode of static tokens: their words in order (every word has
\* 32 bytes, so the sequence of words determines the byte string and back)
encode(tokens) == [i \in DOMAIN tokens |-> AbiWord(tokens[i])]

\* pack_for_hash with the signature's digest appended to the tuple
Mut_pack_for_hash(o) ==
    encode(<< Token_Address(o.sender),
              Token_Uint(o.nonce),
              Token_FixedBytes(keccak256(o.init_code)),
              Token_FixedBytes(keccak256(o.call_data)),
              Token_Uint(o.call_gas_limit),
              Token_Uint(o.verification_gas_limit),
              Token_Uint(o.pre_verification_gas),
              Token_Uint(o.max_fee_per_gas),
              Token_Uint(o.max_priority_fee_per_gas),
              Token_FixedBytes(keccak256(o.paymaster_and_data)),
              Token_FixedBytes(keccak256(o.signature)) >>)

\* UserOperation::pack_for_hash
pack_for_hash(o) ==
    encode(<< Token_Address(o.sender),
              Token_Uint(o.nonce),
              Token_FixedBytes(keccak256(o.init_code)),
              Token_FixedBytes(keccak256(o.call_data)),
              Token_Uint(o.call_gas_limit),
              Token_Uint(o.verification_gas_limit),
              Token_Uint(o.pre_verification_gas),
              Token_Uint(o.max_fee_per_gas),
              Token_Uint(o.max_priority_fee_per_gas),
              Token_FixedBytes(keccak256(o.paymaster_and_data)) >>)

\* hash with the chain id left out of the outer tuple
Mut_hash(o, entry_point, chain_id) ==
    keccak256(encode(<< Token_FixedBytes(keccak256(pack_for_hash(o))),
                        Token_Address(entry_point) >>))

\* UserOperation::hash
hash(o, entry_point, chain_id) ==
    keccak256(encode(<< Token_FixedBytes(keccak256(pack_for_hash(o))),
                        Token_Address(entry_point),
                        Token_Uint(U256FromU64(chain_id)) >>))

\* UserOperation::clear_signature (Bytes::default() is the empty byte string)
clear_signature(o) == [o EXCEPT !.signature = <<>>]

\* ---- inputs of the hash part ----

\* the operation of test_hash
TestOp ==
    [ sender |-> <<19, 6, 176, 27, 195, 228, 173, 32, 38, 18, 211, 132, 51, 135, 233, 71,
                   55, 103, 63, 83>>,
      nonce |-> U256From(8942),
      init_code |-> Cycle(<<105, 66, 6, 148, 32>>, 20),
      call_data |-> Repeat(0, 20) \o <<8, 0, 133>>,
      call_gas_limit |-> U256From(10000),
      verification_gas_limit |-> U256From(100000),
      pre_verification_gas |-> U256From(100),
      max_fee_per_gas |-> U256From(99999),
      max_priority_fee_per_gas |-> U256From(9999999),
      paymaster_and_data |-> Cycle(<<1, 35, 69, 103, 137, 171, 205, 239>>, 40),
      signature |-> Cycle(<<218, 9, 41, 245, 39, 205, 237, 141, 10, 30, 175>>, 31) ]

\* the operation of test_hash_zeroed
ZeroOp ==
    [ sender |-> Addr(0),
      nonce |-> U256_ZERO,
      init_code |-> <<>>,
      call_data |-> <<>>,
      call_gas_limit |-> U256_ZERO,
      verification_gas_limit |-> U256_ZERO,
      pre_verification_gas |-> U256_ZERO,
      max_fee_per_gas |-> U256_ZERO,
      max_priority_fee_per_gas |-> U256_ZERO,
      paymaster_and_data |-> <<>>,
      signature |-> <<>> ]

\* the test operation, the zero operation, and the operations that differ from
\* the test operation in one field; among them a numeric field that takes the
\* value of its neighbour, byte fields that swap contents, and two signatures
Operations ==
    { TestOp, ZeroOp,
      [TestOp EXCEPT !.sender = Addr(17)],
      [TestOp EXCEPT !.nonce = U256From(8943)],
      [TestOp EXCEPT !.init_code = <<>>],
      [TestOp EXCEPT !.init_code = TestOp.call_data],
      [TestOp EXCEPT !.call_data = <<>>],
      [TestOp EXCEPT !.call_gas_limit = U256From(100000)],
      [TestOp EXCEPT !.verification_gas_limit = U256From(10000)],
      [TestOp EXCEPT !.pre_verification_gas = U256_MAX],
      [TestOp EXCEPT !.max_fee_per_gas = U256From(9999999)],
      [TestOp EXCEPT !.max_priority_fee_per_gas = U256From(99999)],
      [TestOp EXCEPT !.paymaster_and_data = Cycle(<<1, 35, 69, 103, 137, 171, 205, 239>>, 19)],
      [TestOp EXCEPT !.paymaster_and_data = <<>>],
      [TestOp EXCEPT !.signature = Repeat(255, 31)],
      [TestOp EXCEPT !.signature = <<0>>] }

\* the entry point of the tests, and another
EntryPoints ==
    { <<102, 161, 94, 220, 195, 181, 10, 102, 62, 114, 241, 69, 127, 253, 73, 185, 174, 40,
        77, 220>>,
      Addr(17) }

\* the chain id of the tests, and Scroll's
ChainIds == {U64From(1337), U64From(534352)}

\* ---- actions of the hash part ----

\* another operation is at hand
Receive ==
    /\ \E o \in Operations : op' = o
    /\ out' = NoValue
    /\ UNCHANGED <<hashed, errVars, fillVars, wallet>>

\* hash(entry_point, chain_id) is called on the operation at hand
Hash ==
    /\ \E v \in EntryPoints, n \in ChainIds :
         hashed' = [op |-> op, entry_point |-> v, chain_id |-> n, digest |-> hash(op, v, n)]
    /\ UNCHANGED <<op, errVars, fillVars, out, wallet>>

\* clear_signature() is called on the operation at hand
ClearSignature ==
    /\ op' = clear_signature(op)
    /\ out' = NoValue
    /\ UNCHANGED <<hashed, errVars, fillVars, wallet>>

OpInit ==
    /\ op \in Operations
    /\ hashed = NoValue
    /\ data = NoValue
    /\ error = NoValue
    /\ rpc = NoValue
    /\ partial = NoValue
    /\ caps = NoValue
    /\ policy = "none"
    /\ rand = NoValue
    /\ origin = NoValue
    /\ rounds = 0
    /\ ov = NoValue
    /\ out = NoValue
    /\ wallet = NoValue

OpNext ==
    \/ Receive
    \/ Hash
    \/ ClearSignature

SpecOp == OpInit /\ [][OpNext]_vars

(***************************************************************************)
(* Claims about the hash                                                   *)
(***************************************************************************)

\* the fields of an operation other than its signature
ButSignature(o) ==
    << o.sender, o.nonce, o.init_code, o.call_data, o.call_gas_limit,
       o.verification_gas_limit, o.pre_verification_gas, o.max_fee_per_gas,
       o.max_priority_fee_per_gas, o.paymaster_and_data >>

\* C4: the identifier does not depend on the signature: an operation that
\* differs from a hashed one at most in its signature (after clear_signature,
\* once or several times, or with another signature) has, for the same
\* verifier and network id, the digest the hashed one had.
C4_HashIgnoresSignature ==
    (hashed # NoValue /\ ButSignature(op) = ButSignature(hashed.op)) =>
      hash(op, hashed.entry_point, hashed.chain_id) = hashed.digest

\* C4's case: an operation with a signature was hashed, then its signature
\* was cleared
C4_Witness ==
    /\ hashed # NoValue
    /\ hashed.op.signature # <<>>
    /\ op = clear_signature(hashed.op)
    /\ op # hashed.op

\* C5: the identifier separates domains: the operation at hand, hashed for any
\* verifier and network id, has the digest of an earlier call only if verifier,
\* network id and every field of the inner pre-image are those of that call;
\* in particular another verifier or another network id gives the same
\* operation another digest.  The outer pre-image is the tuple
\* [inner digest, verifier address, network id].
C5_HashSeparatesDomains ==
    hashed # NoValue =>
      /\ \A v \in EntryPoints, n \in ChainIds :
           hash(op, v, n) = hashed.digest =>
             /\ v = hashed.entry_point
             /\ n = hashed.chain_id
             /\ ButSignature(op) = ButSignature(hashed.op)
      /\ \A v \in EntryPoints, n \in ChainIds :
           (v # hashed.entry_point \/ n # hashed.chain_id) =>
             hash(hashed.op, v, n) # hashed.digest
      /\ Len(hashed.digest.keccak256) = 3
      /\ hashed.digest.keccak256[1].keccak256 = pack_for_hash(hashed.op)
      /\ SubSeq(hashed.digest.keccak256[2], U256Bytes - AddressBytes + 1, U256Bytes)
           = hashed.entry_point
      /\ SubSeq(hashed.digest.keccak256[3], U256Bytes - 7, U256Bytes) = hashed.chain_id

\* C5's case: an operation was hashed, and the operation at hand differs from
\* it in a field of the inner pre-image while the signatures agree
C5_Witness ==
    /\ hashed # NoValue
    /\ op.signature = hashed.op.signature
    /\ op.nonce # hashed.op.nonce
    /\ hash(op, hashed.entry_point, hashed.chain_id) # hashed.digest

(***************************************************************************)
(* src/crates/types/src/user_operation/v0_6.rs: the gas-field fill         *)
(* policies of UserOperationOptionalGas                                    *)
(***************************************************************************)

\* Option::unwrap_or
unwrap_or(o, d) == IF o.some THEN o.val ELSE d

\* Option<U256>::unwrap_or_default (U256::default() is zero)
unwrap_or_default(o) == IF o.some THEN o.val ELSE U256_ZERO

\* into_user_operation without the cap on a present call_gas_limit
Mut_into_user_operation_uncapped(self, max_call_gas, max_verification_gas) ==
    [ sender |-> self.sender,
      nonce |-> self.nonce,
      init_code |-> self.init_code,
      call_data |-> self.call_data,
      paymaster_and_data |-> self.paymaster_and_data,
      signature |-> self.signature,
      verification_gas_limit |->
          U256Min(unwrap_or(self.verification_gas_limit, max_verification_gas),
                  max_verification_gas),
      call_gas_limit |-> unwrap_or(self.call_gas_limit, max_call_gas),
      pre_verification_gas |-> unwrap_or_default(self.pre_verification_gas),
      max_fee_per_gas |-> unwrap_or_default(self.max_fee_per_gas),
      max_priority_fee_per_gas |-> unwrap_or_default(self.max_priority_fee_per_gas) ]

\* into_user_operation that ignores a present pre_verification_gas (the field's
\* doc comment reads "ignored if set")
Mut_into_user_operation_ignores_pvg(self, max_call_gas, max_verification_gas) ==
    [ sender |-> self.sender,
      nonce |-> self.nonce,
      init_code |-> self.init_code,
      call_data |-> self.call_data,
      paymaster_and_data |-> self.paymaster_and_data,
      signature |-> self.signature,
      verification_gas_limit |->
          U256Min(unwrap_or(self.verification_gas_limit, max_verification_gas),
                  max_verification_gas),
      call_gas_limit |->
          U256Min(unwrap_or(self.call_gas_limit, max_call_gas), max_call_gas),
      pre_verification_gas |-> U256_ZERO,
      max_fee_per_gas |-> unwrap_or_default(self.max_fee_per_gas),
      max_priority_fee_per_gas |-> unwrap_or_default(self.max_priority_fee_per_gas) ]

\* UserOperationOptionalGas::into_user_operation
into_user_operation(self, max_call_gas, max_verification_gas) ==
    [ sender |-> self.sender,
      nonce |-> self.nonce,
      init_code |-> self.init_code,
      call_data |-> self.call_data,
      paymaster_and_data |-> self.paymaster_and_data,
      signature |-> self.signature,
      verification_gas_limit |->
          U256Min(unwrap_or(self.verification_gas_limit, max_verification_gas),
                  max_verification_gas),
      call_gas_limit |->
          U256Min(unwrap_or(self.call_gas_limit, max_call_gas), max_call_gas),
      pre_verification_gas |-> unwrap_or_default(self.pre_verification_gas),
      max_fee_per_gas |-> unwrap_or_default(self.max_fee_per_gas),
      max_priority_fee_per_gas |-> unwrap_or_default(self.max_priority_fee_per_gas) ]

\* max_fill that takes the configured caps for the two gas limits
Mut_max_fill_caps(self, max_call_gas, max_verification_gas) ==
    [ into_user_operation(self, max_call_gas, max_verification_gas) EXCEPT
        !.call_gas_limit = max_call_gas,
        !.verification_gas_limit = max_verification_gas,
        !.pre_verification_gas = U256_MAX,
        !.max_fee_per_gas = U256_MAX,
        !.max_priority_fee_per_gas = U256_MAX,
        !.signature = Repeat(255, Len(self.signature)),
        !.paymaster_and_data = Repeat(255, Len(self.paymaster_and_data)) ]

\* max_fill that fills the signature with zero bytes
Mut_max_fill_zero_signature(self, max_call_gas, max_verification_gas) ==
    [ into_user_operation(self, max_call_gas, max_verification_gas) EXCEPT
        !.call_gas_limit = U256_MAX,
        !.verification_gas_limit = U256_MAX,
        !.pre_verification_gas = U256_MAX,
        !.max_fee_per_gas = U256_MAX,
        !.max_priority_fee_per_gas = U256_MAX,
        !.signature = Repeat(0, Len(self.signature)),
        !.paymaster_and_data = Repeat(255, Len(self.paymaster_and_data)) ]

\* max_fill that fills call_data with 0xFF bytes as well
Mut_max_fill_call_data(self, max_call_gas, max_verification_gas) ==
    [ into_user_operation(self, max_call_gas, max_verification_gas) EXCEPT
        !.call_gas_limit = U256_MAX,
        !.verification_gas_limit = U256_MAX,
        !.pre_verification_gas = U256_MAX,
        !.max_fee_per_gas = U256_MAX,
        !.max_priority_fee_per_gas = U256_MAX,
        !.call_data = Repeat(255, Len(self.call_data)),
        !.signature = Repeat(255, Len(self.signature)),
        !.paymaster_and_data = Repeat(255, Len(self.paymaster_and_data)) ]

\* UserOperationOptionalGas::max_fill: the listed fields, and every other
\* field from into_user_operation
max_fill(self, max_call_gas, max_verification_gas) ==
    [ into_user_operation(self, max_call_gas, max_verification_gas) EXCEPT
        !.call_gas_limit = U256_MAX,
        !.verification_gas_limit = U256_MAX,
        !.pre_verification_gas = U256_MAX,
        !.max_fee_per_gas = U256_MAX,
        !.max_priority_fee_per_gas = U256_MAX,
        !.signature = Repeat(255, Len(self.signature)),
        !.paymaster_and_data = Repeat(255, Len(self.paymaster_and_data)) ]

\* UserOperationOptionalGas::random_bytes(len): the thread's random generator
\* fills len bytes.  The generator's output is the byte stream rng, read
\* cyclically; a call that starts at offset `at` of the stream takes the next
\* len bytes
random_bytes(rng, at, len) ==
    [i \in 1..len |-> rng[((at + i - 1) % Len(rng)) + 1]]

\* random_fill that reads five random bytes for call_gas_limit
Mut_random_fill_five_bytes(self, max_call_gas, max_verification_gas, rng) ==
    [ into_user_operation(self, max_call_gas, max_verification_gas) EXCEPT
        !.call_gas_limit = from_big_endian(random_bytes(rng, 0, 5)),
        !.verification_gas_limit = from_big_endian(random_bytes(rng, 5, 4)),
        !.pre_verification_gas = from_big_endian(random_bytes(rng, 9, 4)),
        !.max_fee_per_gas = from_big_endian(random_bytes(rng, 13, 8)),
        !.max_priority_fee_per_gas = from_big_endian(random_bytes(rng, 21, 8)),
        !.signature = random_bytes(rng, 29, Len(self.signature)),
        !.paymaster_and_data =
            random_bytes(rng, 29 + Len(self.signature), Len(self.paymaster_and_data)) ]

\* UserOperationOptionalGas::random_fill: the fields of the struct expression
\* are evaluated in the order written, each call of random_bytes taking the
\* generator's next bytes; every other field comes from into_user_operation
random_fill(self, max_call_gas, max_verification_gas, rng) ==
    [ into_user_operation(self, max_call_gas, max_verification_gas) EXCEPT
        !.call_gas_limit = from_big_endian(random_bytes(rng, 0, 4)),
        !.verification_gas_limit = from_big_endian(random_bytes(rng, 4, 4)),
        !.pre_verification_gas = from_big_endian(random_bytes(rng, 8, 4)),
        !.max_fee_per_gas = from_big_endian(random_bytes(rng, 12, 8)),
        !.max_priority_fee_per_gas = from_big_endian(random_bytes(rng, 20, 8)),
        !.signature = random_bytes(rng, 28, Len(self.signature)),
        !.paymaster_and_data =
            random_bytes(rng, 28 + Len(self.signature), Len(self.paymaster_and_data)) ]

\* struct UserOperationOptionalGas, built from a full operation with every
\* optional field present
FullySpecified(o) ==
    [ sender |-> o.sender,
      nonce |-> o.nonce,
      init_code |-> o.init_code,
      call_data |-> o.call_data,
      call_gas_limit |-> Some(o.call_gas_limit),
      verification_gas_limit |-> Some(o.verification_gas_limit),
      pre_verification_gas |-> Some(o.pre_verification_gas),
      max_fee_per_gas |-> Some(o.max_fee_per_gas),
      max_priority_fee_per_gas |-> Some(o.max_priority_fee_per_gas),
      paymaster_and_data |-> o.paymaster_and_data,
      signature |-> o.signature ]

\* ---- the calldata gas cost ----

\* the length of n bytes padded to whole 32-byte words
PadLen(n) == ((n + U256Bytes - 1) \div U256Bytes) * U256Bytes

\* the ABI encoding of a dynamic byte string: its length word, then its bytes
\* padded with zeros to whole words
AbiBytes(b) == U256From(Len(b)) \o b \o Repeat(0, PadLen(Len(b)) - Len(b))

\* the serialized operation: the ABI encoding of the UserOperation tuple: the
\* tuple's offset, eleven head words (static fields in place, dynamic fields
\* as offsets into the tail), then the four byte strings
AbiEncodeOp(o) ==
    LET head == 11 * U256Bytes
        at_call_data == head + U256Bytes + PadLen(Len(o.init_code))
        at_paymaster == at_call_data + U256Bytes + PadLen(Len(o.call_data))
        at_signature == at_paymaster + U256Bytes + PadLen(Len(o.paymaster_and_data))
    IN  U256From(U256Bytes)
        \o Repeat(0, U256Bytes - AddressBytes) \o o.sender
        \o o.nonce
        \o U256From(head)
        \o U256From(at_call_data)
        \o o.call_gas_limit
        \o o.verification_gas_limit
        \o o.pre_verification_gas
        \o o.max_fee_per_gas
        \o o.max_priority_fee_per_gas
        \o U256From(at_paymaster)
        \o U256From(at_signature)
        \o AbiBytes(o.init_code)
        \o AbiBytes(o.call_data)
        \o AbiBytes(o.paymaster_and_data)
        \o AbiBytes(o.signature)

\* super::op_calldata_gas_cost: every byte of the serialized operation costs
\* ov.zero_byte when it is zero and ov.non_zero_byte otherwise
op_calldata_gas_cost(o) ==
    LET bytes == AbiEncodeOp(o)
        nonzero == Cardinality({i \in DOMAIN bytes : bytes[i] # 0})
    IN  nonzero * ov.non_zero_byte + (Len(bytes) - nonzero) * ov.zero_byte

\* UserOperation::calc_static_pre_verification_gas
calc_static_pre_verification_gas(o, include_fixed_gas_overhead) ==
    op_calldata_gas_cost(o)
    + (IF include_fixed_gas_overhead THEN ov.transaction_gas_overhead ELSE 0)

\* ---- inputs of the fill part ----

\* the optional gas and fee fields a client may send: none; those of
\* test_hash; some; others; all present at the numeric maximum, above every cap
GasProfiles ==
    { [call_gas_limit |-> None, verification_gas_limit |-> None,
       pre_verification_gas |-> None, max_fee_per_gas |-> None,
       max_priority_fee_per_gas |-> None],
      [call_gas_limit |-> Some(U256From(10000)),
       verification_gas_limit |-> Some(U256From(100000)),
       pre_verification_gas |-> Some(U256From(100)),
       max_fee_per_gas |-> Some(U256From(99999)),
       max_priority_fee_per_gas |-> Some(U256From(9999999))],
      [call_gas_limit |-> Some(U256From(50000)),
       verification_gas_limit |-> Some(U256From(3000)),
       pre_verification_gas |-> None, max_fee_per_gas |-> Some(U256From(99999)),
       max_priority_fee_per_gas |-> None],
      [call_gas_limit |-> None, verification_gas_limit |-> Some(U256From(100000)),
       pre_verification_gas |-> Some(U256From(100)), max_fee_per_gas |-> None,
       max_priority_fee_per_gas |-> Some(U256From(1))],
      [call_gas_limit |-> Some(U256_MAX), verification_gas_limit |-> Some(U256_MAX),
       pre_verification_gas |-> Some(U256_MAX), max_fee_per_gas |-> Some(U256_MAX),
       max_priority_fee_per_gas |-> Some(U256_MAX)] }

\* the byte fields a client may send: all empty; those of test_hash with a
\* 65-byte signature; fields of 19 bytes and a signature with zero bytes;
\* fields of 21 and 20 bytes with zero bytes
ByteProfiles ==
    { [init_code |-> <<>>, call_data |-> <<>>, paymaster_and_data |-> <<>>,
       signature |-> <<>>],
      [init_code |-> TestOp.init_code, call_data |-> TestOp.call_data,
       paymaster_and_data |-> TestOp.paymaster_and_data,
       signature |-> Cycle(<<218, 9, 41, 245, 39, 205, 237, 141, 10, 30, 175>>, 65)],
      [init_code |-> Cycle(<<105, 66, 6, 148, 32>>, 19), call_data |-> <<>>,
       paymaster_and_data |-> Cycle(<<1, 35, 69, 103, 137, 171, 205, 239>>, 19),
       signature |-> <<0, 0, 1>>],
      [init_code |-> Cycle(<<105, 0, 6>>, 21), call_data |-> <<0, 7>>,
       paymaster_and_data |-> Cycle(<<0, 35>>, 20), signature |-> <<0, 0>>] }

Partials ==
    { [ sender |-> TestOp.sender,
        nonce |-> TestOp.nonce,
        init_code |-> b.init_code,
        call_data |-> b.call_data,
        call_gas_limit |-> g.call_gas_limit,
        verification_gas_limit |-> g.verification_gas_limit,
        pre_verification_gas |-> g.pre_verification_gas,
        max_fee_per_gas |-> g.max_fee_per_gas,
        max_priority_fee_per_gas |-> g.max_priority_fee_per_gas,
        paymaster_and_data |-> b.paymaster_and_data,
        signature |-> b.signature ] : g \in GasProfiles, b \in ByteProfiles }

\* the configured caps: below, at and above the gas limits clients send
CapSettings ==
    { [max_call_gas |-> U256From(20000), max_verification_gas |-> U256From(100000)],
      [max_call_gas |-> U256From(50000), max_verification_gas |-> U256From(2000)] }

\* byte-cost models: Ethereum's calldata prices with the transaction's base
\* cost, and a flat price per byte
OverheadModels ==
    { [zero_byte |-> 4, non_zero_byte |-> 16, transaction_gas_overhead |-> 21000],
      [zero_byte |-> 3, non_zero_byte |-> 3, transaction_gas_overhead |-> 0] }

\* outcomes of the random source: all zero bits, all one bits, and two streams
\* of mixed bytes
RandomStreams ==
    { <<0>>, <<255>>, <<0, 200, 7>>, <<1, 0, 0, 128, 255, 3, 0, 9, 64, 0, 77>> }

\* how often an output is sent back as an input
MaxRounds == 1

\* ---- actions of the fill part ----

\* the Default policy
IntoUserOperation ==
    /\ op' = into_user_operation(partial, caps.max_call_gas, caps.max_verification_gas)
    /\ policy' = "Default"
    /\ rand' = NoValue
    /\ out' = NoValue
    /\ UNCHANGED <<partial, caps, origin, rounds, ov, hashed, errVars, wallet>>

\* the MaxFill policy
MaxFill ==
    /\ op' = max_fill(partial, caps.max_call_gas, caps.max_verification_gas)
    /\ policy' = "MaxFill"
    /\ rand' = NoValue
    /\ out' = NoValue
    /\ UNCHANGED <<partial, caps, origin, rounds, ov, hashed, errVars, wallet>>

\* the RandomFill policy, for every outcome of the random source
RandomFill ==
    /\ \E rng \in RandomStreams :
         /\ op' = random_fill(partial, caps.max_call_gas, caps.max_verification_gas, rng)
         /\ rand' = rng
    /\ policy' = "RandomFill"
    /\ out' = NoValue
    /\ UNCHANGED <<partial, caps, origin, rounds, ov, hashed, errVars, wallet>>

\* a client sends the operation a policy produced back as its next input, every
\* optional field present
Resubmit ==
    /\ policy # "none"
    /\ rounds < MaxRounds
    /\ partial' = FullySpecified(op)
    /\ origin' = [policy |-> policy, input |-> partial]
    /\ rounds' = rounds + 1
    /\ op' = NoValue
    /\ policy' = "none"
    /\ rand' = NoValue
    /\ out' = NoValue
    /\ UNCHANGED <<caps, ov, hashed, errVars, wallet>>

FillInit ==
    /\ partial \in Partials
    /\ caps \in CapSettings
    /\ ov \in OverheadModels
    /\ op = NoValue
    /\ policy = "none"
    /\ rand = NoValue
    /\ origin = [policy |-> "client"]
    /\ rounds = 0
    /\ hashed = NoValue
    /\ data = NoValue
    /\ error = NoValue
    /\ rpc = NoValue
    /\ out = NoValue
    /\ wallet = NoValue

FillNext ==
    \/ IntoUserOperation
    \/ MaxFill
    \/ RandomFill
    \/ Resubmit

SpecFill == FillInit /\ [][FillNext]_vars

(***************************************************************************)
(* Claims about the fill policies                                          *)
(***************************************************************************)

\* x is the gas limit the Default policy gives an input under a cap: the cap
\* when the input is absent or above the cap, else the input
CappedAt(x, input, cap) ==
    IF ~input.some THEN x = cap
    ELSE IF U256Lt(cap, input.val) THEN x = cap
    ELSE x = input.val

\* x is the value the Default policy gives an uncapped field: 0 when absent
ZeroOrInput(x, input) ==
    IF input.some THEN x = input.val ELSE x = Repeat(0, 32)

\* C6: under the Default policy call_gas_limit is max_call_gas when the input
\* is absent and min(input, max_call_gas) when present, likewise
\* verification_gas_limit, so neither exceeds its cap; pre_verification_gas,
\* max_fee_per_gas and max_priority_fee_per_gas are 0 when absent and the input
\* when present, never capped; the other six fields equal the input.
C6_DefaultPolicy ==
    policy = "Default" =>
      /\ CappedAt(op.call_gas_limit, partial.call_gas_limit, caps.max_call_gas)
      /\ CappedAt(op.verification_gas_limit, partial.verification_gas_limit,
                  caps.max_verification_gas)
      /\ ~U256Lt(caps.max_call_gas, op.call_gas_limit)
      /\ ~U256Lt(caps.max_verification_gas, op.verification_gas_limit)
      /\ ZeroOrInput(op.pre_verification_gas, partial.pre_verification_gas)
      /\ ZeroOrInput(op.max_fee_per_gas, partial.max_fee_per_gas)
      /\ ZeroOrInput(op.max_priority_fee_per_gas, partial.max_priority_fee_per_gas)
      /\ op.sender = partial.sender
      /\ op.nonce = partial.nonce
      /\ op.init_code = partial.init_code
      /\ op.call_data = partial.call_data
      /\ op.paymaster_and_data = partial.paymaster_and_data
      /\ op.signature = partial.signature

\* C6's case: Default has run on an input with one gas limit above its cap, one
\* below its cap, a fee present and above the call-gas cap, and a gas field absent
C6_Witness ==
    /\ policy = "Default"
    /\ partial.call_gas_limit.some
    /\ U256Lt(caps.max_call_gas, partial.call_gas_limit.val)
    /\ partial.verification_gas_limit.some
    /\ U256Lt(partial.verification_gas_limit.val, caps.max_verification_gas)
    /\ partial.max_fee_per_gas.some
    /\ U256Lt(caps.max_call_gas, partial.max_fee_per_gas.val)
    /\ ~partial.pre_verification_gas.some

AllPresent(p) ==
    /\ p.call_gas_limit.some
    /\ p.verification_gas_limit.some
    /\ p.pre_verification_gas.some
    /\ p.max_fee_per_gas.some
    /\ p.max_priority_fee_per_gas.some

\* the operation a fully specified input states
Stated(p) ==
    [ sender |-> p.sender,
      nonce |-> p.nonce,
      init_code |-> p.init_code,
      call_data |-> p.call_data,
      call_gas_limit |-> p.call_gas_limit.val,
      verification_gas_limit |-> p.verification_gas_limit.val,
      pre_verification_gas |-> p.pre_verification_gas.val,
      max_fee_per_gas |-> p.max_fee_per_gas.val,
      max_priority_fee_per_gas |-> p.max_priority_fee_per_gas.val,
      paymaster_and_data |-> p.paymaster_and_data,
      signature |-> p.signature ]

WithinCaps(p) ==
    /\ ~U256Lt(caps.max_call_gas, p.call_gas_limit.val)
    /\ ~U256Lt(caps.max_verification_gas, p.verification_gas_limit.val)

\* C7 as stated: the Default policy applied to a fully specified operation
\* changes no field, for every pair of caps, and applied to its own output
\* changes nothing again.
C7_DefaultIsNoOpOnFullySpecified ==
    (policy = "Default" /\ AllPresent(partial)) => op = Stated(partial)

\* C7 as amended: the Default policy applied to a fully specified operation
\* changes no field except call_gas_limit and verification_gas_limit, which
\* become min(input, cap); so it is a no-op exactly when both limits are
\* within their caps.  Applied to its own output, with the same caps, it
\* changes nothing.
C7_DefaultCapsThenIsNoOp ==
    (policy = "Default" /\ AllPresent(partial)) =>
      /\ [op EXCEPT !.call_gas_limit = partial.call_gas_limit.val,
                    !.verification_gas_limit = partial.verification_gas_limit.val]
           = Stated(partial)
      /\ CappedAt(op.call_gas_limit, partial.call_gas_limit, caps.max_call_gas)
      /\ CappedAt(op.verification_gas_limit, partial.verification_gas_limit,
                  caps.max_verification_gas)
      /\ WithinCaps(partial) <=> op = Stated(partial)
      /\ origin.policy = "Default" => op = Stated(partial)

\* C7's case: Default ran on a fully specified input whose call_gas_limit was
\* above its cap, its output was sent back, and Default has run on it again
C7_Witness ==
    /\ policy = "Default"
    /\ origin.policy = "Default"
    /\ AllPresent(origin.input)
    /\ U256Lt(caps.max_call_gas, origin.input.call_gas_limit.val)
    /\ partial.call_gas_limit.val = caps.max_call_gas
    /\ op = Stated(partial)

\* 2^256 - 1: 32 bytes of eight one bits
IsMaxU256(x) == Len(x) = 32 /\ \A i \in 1..32 : x[i] = 255

AllFF(b, n) == Len(b) = n /\ \A i \in 1..n : b[i] = 255

\* C8: the MaxFill output has call_gas_limit, verification_gas_limit,
\* max_fee_per_gas and max_priority_fee_per_gas equal to 2^256 - 1, whatever
\* the caps and whether or not the input gave a value, and its signature and
\* paymaster_and_data are 0xFF bytes of the input's lengths.
C8_MaxFill ==
    policy = "MaxFill" =>
      /\ IsMaxU256(op.call_gas_limit)
      /\ IsMaxU256(op.verification_gas_limit)
      /\ IsMaxU256(op.max_fee_per_gas)
      /\ IsMaxU256(op.max_priority_fee_per_gas)
      /\ AllFF(op.signature, Len(partial.signature))
      /\ AllFF(op.paymaster_and_data, Len(partial.paymaster_and_data))

\* C8's case: MaxFill has run on an input that gave gas limits below the
\* numeric maximum and non-empty byte fields that were not all 0xFF
C8_Witness ==
    /\ policy = "MaxFill"
    /\ partial.call_gas_limit.some
    /\ U256Lt(partial.call_gas_limit.val, caps.max_call_gas)
    /\ partial.max_fee_per_gas.some
    /\ Len(partial.signature) > 0
    /\ Len(partial.paymaster_and_data) > 0
    /\ op.signature # partial.signature
    /\ op.paymaster_and_data # partial.paymaster_and_data

\* C9: when a nonzero byte costs at least what a zero byte costs, the
\* calldata-gas cost of the MaxFill output is at least that of the Default
\* output for the same input and caps, with and without the fixed overhead.
C9_MaxFillCostsAtLeastDefault ==
    (policy = "MaxFill" /\ ov.non_zero_byte >= ov.zero_byte) =>
      \A include_fixed_gas_overhead \in BOOLEAN :
        calc_static_pre_verification_gas(op, include_fixed_gas_overhead)
          >= calc_static_pre_verification_gas(
                 into_user_operation(partial, caps.max_call_gas,
                                     caps.max_verification_gas),
                 include_fixed_gas_overhead)

\* C9's case: MaxFill has run on an input with a long signature and every gas
\* field at the numeric maximum, where bytes differ in price and the MaxFill
\* output costs more than the Default output
C9_Witness ==
    /\ policy = "MaxFill"
    /\ ov.non_zero_byte > ov.zero_byte
    /\ Len(partial.signature) > 64
    /\ AllPresent(partial)
    /\ partial.pre_verification_gas.val = U256_MAX
    /\ calc_static_pre_verification_gas(op, TRUE)
         > calc_static_pre_verification_gas(
               into_user_operation(partial, caps.max_call_gas,
                                   caps.max_verification_gas), TRUE)

\* x < 2^(8k): the bytes above the k lowest are zero
Below(x, k) == Len(x) = 32 /\ \A i \in 1..(32 - k) : x[i] = 0

\* the k lowest bytes of x are the random source's bytes at..at+k-1
ReadFrom(x, at, k) ==
    \A i \in 1..k : x[32 - k + i] = rand[((at + i - 1) % Len(rand)) + 1]

\* C10: for every outcome of the random source the RandomFill output has
\* call_gas_limit and verification_gas_limit below 2^32, each read big-endian
\* from 4 random bytes whatever the input and the caps, max_fee_per_gas and
\* max_priority_fee_per_gas below 2^64, read from 8 random bytes each, and a
\* signature and paymaster_and_data of the input's lengths.
C10_RandomFill ==
    policy = "RandomFill" =>
      /\ Below(op.call_gas_limit, 4)
      /\ Below(op.verification_gas_limit, 4)
      /\ Below(op.max_fee_per_gas, 8)
      /\ Below(op.max_priority_fee_per_gas, 8)
      /\ ReadFrom(op.call_gas_limit, 0, 4)
      /\ ReadFrom(op.verification_gas_limit, 4, 4)
      /\ ReadFrom(op.max_fee_per_gas, 12, 8)
      /\ ReadFrom(op.max_priority_fee_per_gas, 20, 8)
      /\ Len(op.signature) = Len(partial.signature)
      /\ Len(op.paymaster_and_data) = Len(partial.paymaster_and_data)

\* C10's case: RandomFill has run on an input that gave a call_gas_limit, the
\* random value differs from it and exceeds the cap, and the non-empty
\* signature was replaced
C10_Witness ==
    /\ policy = "RandomFill"
    /\ partial.call_gas_limit.some
    /\ op.call_gas_limit # partial.call_gas_limit.val
    /\ U256Lt(caps.max_call_gas, op.call_gas_limit)
    /\ partial.max_fee_per_gas.some
    /\ op.max_fee_per_gas # partial.max_fee_per_gas.val
    /\ Len(partial.signature) > 0
    /\ op.signature # partial.signature

\* the Default policy's output for the input and caps at hand
DefaultOutput == into_user_operation(partial, caps.max_call_gas, caps.max_verification_gas)

Filled == policy \in {"MaxFill", "RandomFill"}

\* C14 as stated: MaxFill and RandomFill overwrite only call_gas_limit,
\* verification_gas_limit, max_fee_per_gas, max_priority_fee_per_gas, signature
\* and paymaster_and_data; sender, nonce, init_code, call_data and
\* pre_verification_gas of their output equal those of the Default policy's
\* output for the same input and caps.
C14_FillKeepsOtherFields ==
    Filled =>
      /\ op.sender = DefaultOutput.sender
      /\ op.nonce = DefaultOutput.nonce
      /\ op.init_code = DefaultOutput.init_code
      /\ op.call_data = DefaultOutput.call_data
      /\ op.pre_verification_gas = DefaultOutput.pre_verification_gas

\* C14, amended: MaxFill and RandomFill overwrite pre_verification_gas too, with
\* 2^256 - 1 under MaxFill and with a value below 2^32 read from 4 random bytes
\* under RandomFill, whatever the input gave; sender, nonce, init_code and
\* call_data of their output equal those of the Default policy's output for
\* the same input and caps.
C14_FillKeepsIdentityFields ==
    Filled =>
      /\ op.sender = DefaultOutput.sender
      /\ op.nonce = DefaultOutput.nonce
      /\ op.init_code = DefaultOutput.init_code
      /\ op.call_data = DefaultOutput.call_data
      /\ policy = "MaxFill" => IsMaxU256(op.pre_verification_gas)
      /\ policy = "RandomFill" =>
           /\ Below(op.pre_verification_gas, 4)
           /\ ReadFrom(op.pre_verification_gas, 8, 4)

\* C14's case: a fill policy ran on an input that gave a pre_verification_gas
\* and non-empty init_code and call_data; the output carries the input's
\* init_code and call_data and another pre_verification_gas
C14_Witness ==
    /\ Filled
    /\ partial.pre_verification_gas.some
    /\ op.pre_verification_gas # partial.pre_verification_gas.val
    /\ Len(partial.init_code) > 0
    /\ Len(partial.call_data) > 0
    /\ \E i \in 1..Len(partial.call_data) : partial.call_data[i] # 255
    /\ op.init_code = partial.init_code
    /\ op.call_data = partial.call_data


(***************************************************************************)
(* src/crates/types/src/user_operation/v0_6.rs: gas accounting and         *)
(* entities                                                                *)
(***************************************************************************)

\* ---- natural numbers of any size: big-endian byte strings of any length ----

\* the byte of weight 256^i of x
Digit(x, i) == IF i < Len(x) THEN x[Len(x) - i] ELSE 0

\* s, last byte first
Reverse(s) == [i \in 1..Len(s) |-> s[Len(s) + 1 - i]]

\* x without its leading zero bytes
Trim(x) ==
    LET nz == {i \in 1..Len(x) : x[i] # 0}
    IN  IF nz = {} THEN <<>> ELSE SubSeq(x, SetMin(nz), Len(x))

\* a + b, exactly: byte by byte from the lowest, with the carry
BigAdd(a, b) ==
    LET n == (IF Len(a) > Len(b) THEN Len(a) ELSE Len(b)) + 1
        \* the bytes of weight 256^i and up, lowest first, given the carry into byte i
        AddFrom[p \in Nat \X Nat] ==
            LET i == p[1]
                t == Digit(a, i) + Digit(b, i) + p[2]
            IN  IF i = n THEN <<>> ELSE <<t % 256>> \o AddFrom[<<i + 1, t \div 256>>]
    IN  Reverse(AddFrom[<<0, 0>>])

\* a * b, exactly: two columns at a time from the lowest, with the carry
BigMul(a, b) ==
    LET x == Trim(a)
        y == Trim(b)
        n == Len(x) + Len(y)
        \* the sum of the byte products of weight 256^j that take x's bytes lo..hi
        ColSum[p \in Nat \X Nat \X Int] ==
            LET j == p[1]
                lo == p[2]
                hi == p[3]
                mid == (lo + hi) \div 2
            IN  IF lo > hi THEN 0
                ELSE IF lo = hi THEN Digit(x, lo) * Digit(y, j - lo)
                ELSE ColSum[<<j, lo, mid>>] + ColSum[<<j, mid + 1, hi>>]
        Column(j) == ColSum[<<j, 0, IF j < Len(x) THEN j ELSE Len(x) - 1>>]
        \* the bytes of weight 256^j and up, lowest first, given the carry into byte j
        MulFrom[p \in Nat \X Nat] ==
            LET j == p[1]
                t == Column(j) + 256 * Column(j + 1) + p[2]
            IN  IF j >= n THEN <<>>
                ELSE <<t % 256, (t \div 256) % 256>> \o MulFrom[<<j + 2, t \div 65536>>]
    IN  Reverse(MulFrom[<<0, 0>>])

\* x < 2^256
Fits256(x) == \A i \in 1..(Len(x) - U256Bytes) : x[i] = 0

\* x mod 2^256, as a U256
Low256(x) == [i \in 1..U256Bytes |-> Digit(x, U256Bytes - i)]

\* ---- U256 arithmetic ----

\* how a computation ends: it returns a value, or it panics
Ret(x) == [panicked |-> FALSE, val |-> x]
Panicked == [panicked |-> TRUE]

\* the uint crate's operators on U256: overflowing_add / overflowing_mul, then
\* panic_on_overflow!; a panic in an operand unwinds through the expression
U256Checked(x) == IF Fits256(x) THEN Ret(Low256(x)) ELSE Panicked

U256Add(a, b) ==
    IF a.panicked \/ b.panicked THEN Panicked ELSE U256Checked(BigAdd(a.val, b.val))

U256Mul(a, b) ==
    IF a.panicked \/ b.panicked THEN Panicked ELSE U256Checked(BigMul(a.val, b.val))

\* ---- the operations ----

\* get_address_from_field that takes a field of exactly 20 bytes for too short
Mut_get_address_from_field(field) ==
    IF Len(field) <= AddressBytes THEN None ELSE Some(SubSeq(field, 1, AddressBytes))

\* UserOperation::get_address_from_field
get_address_from_field(field) ==
    IF Len(field) < AddressBytes THEN None ELSE Some(SubSeq(field, 1, AddressBytes))

\* UserOperation::factory
factory(o) == get_address_from_field(o.init_code)

\* UserOperation::paymaster
paymaster(o) == get_address_from_field(o.paymaster_and_data)

\* UserOperation::max_gas_cost
max_gas_cost(o) ==
    LET mul == IF paymaster(o).some THEN 3 ELSE 1
    IN  U256Mul(Ret(o.max_fee_per_gas),
                U256Add(U256Add(Ret(o.pre_verification_gas), Ret(o.call_gas_limit)),
                        U256Mul(Ret(o.verification_gas_limit), Ret(U256From(mul)))))

\* UserOperation::total_verification_gas_limit
total_verification_gas_limit(o) ==
    LET mul == IF paymaster(o).some THEN 2 ELSE 1
    IN  U256Mul(Ret(o.verification_gas_limit), Ret(U256From(mul)))

\* UserOperation::required_pre_execution_buffer
required_pre_execution_buffer(o) ==
    U256Add(Ret(o.verification_gas_limit), Ret(U256From(5000)))

\* the variants of EntityType, in the order EntityType::iter() visits them
EntityType == <<"Account", "Paymaster", "Factory", "Aggregator">>

\* UserOperation::entity_address
entity_address(o, entity) ==
    CASE entity = "Account" -> Some(o.sender)
      [] entity = "Paymaster" -> paymaster(o)
      [] entity = "Factory" -> factory(o)
      [] entity = "Aggregator" -> None

HasAddress(e) == e.address.some

\* UserOperation::entities: filter_map over EntityType::iter(), an
\* Entity::new(entity, address) for each entity type that has an address
entities(o) ==
    LET found == SelectSeq([i \in DOMAIN EntityType |->
                               [kind |-> EntityType[i],
                                address |-> entity_address(o, EntityType[i])]],
                           HasAddress)
    IN  [i \in DOMAIN found |-> [kind |-> found[i].kind, address |-> found[i].address.val]]

\* ---- inputs of the accounting part ----

\* the sample operations, and operations at the edges of the accounting: a
\* paymaster field of exactly 20 bytes and of 1 byte, an init_code of 19 bytes,
\* no fee with a gas sum beyond 2^256, a fee of 1 with gas limits that reach
\* 2^256 only when tripled, and the largest verification gas limit
GasOperations ==
    Operations \cup
    { [TestOp EXCEPT !.paymaster_and_data = Cycle(<<1, 35, 69, 103, 137>>, 20)],
      [TestOp EXCEPT !.paymaster_and_data = <<1>>],
      [TestOp EXCEPT !.init_code = Cycle(<<105, 66, 6, 148, 32>>, 19)],
      [ZeroOp EXCEPT !.pre_verification_gas = U256_MAX, !.call_gas_limit = U256From(1)],
      [TestOp EXCEPT !.max_fee_per_gas = U256From(1),
                     !.verification_gas_limit = Cycle(<<96, 0>>, 32)],
      [ZeroOp EXCEPT !.verification_gas_limit = U256_MAX] }

\* ---- actions of the accounting part ----

MaxGasCost ==
    /\ out' = [call |-> "max_gas_cost", result |-> max_gas_cost(op)]
    /\ UNCHANGED <<opVars, fillVars, errVars, wallet>>

TotalVerificationGasLimit ==
    /\ out' = [call |-> "total_verification_gas_limit",
               result |-> total_verification_gas_limit(op)]
    /\ UNCHANGED <<opVars, fillVars, errVars, wallet>>

RequiredPreExecutionBuffer ==
    /\ out' = [call |-> "required_pre_execution_buffer",
               result |-> required_pre_execution_buffer(op)]
    /\ UNCHANGED <<opVars, fillVars, errVars, wallet>>

Entities ==
    /\ out' = [call |-> "entities", result |-> Ret(entities(op))]
    /\ UNCHANGED <<opVars, fillVars, errVars, wallet>>

\* an operation is at hand, and a client's input with the configured caps
GasInit ==
    /\ op \in GasOperations
    /\ partial \in Partials
    /\ caps \in CapSettings
    /\ ov = NoValue
    /\ policy = "none"
    /\ rand = NoValue
    /\ origin = [policy |-> "client"]
    /\ rounds = 0
    /\ hashed = NoValue
    /\ out = NoValue
    /\ data = NoValue
    /\ error = NoValue
    /\ rpc = NoValue
    /\ wallet = NoValue

\* the accounting applies to any operation: one at hand, or one a fill policy
\* produced
GasNext ==
    \/ IntoUserOperation
    \/ MaxFill
    \/ RandomFill
    \/ MaxGasCost
    \/ TotalVerificationGasLimit
    \/ RequiredPreExecutionBuffer
    \/ Entities

SpecGas == GasInit /\ [][GasNext]_vars

\* ---- claims on the gas accounting ----

\* max_fee_per_gas * (pre_verification_gas + call_gas_limit +
\* verification_gas_limit * k) over the naturals, k = 3 when paymaster_and_data
\* has at least 20 bytes and 1 otherwise
CostOverNaturals(o) ==
    LET k == IF Len(o.paymaster_and_data) >= 20 THEN 3 ELSE 1
    IN  BigMul(o.max_fee_per_gas,
               BigAdd(BigAdd(o.pre_verification_gas, o.call_gas_limit),
                      BigMul(o.verification_gas_limit, <<k>>)))

\* C11: for every operation whose cost max_fee_per_gas * (pre_verification_gas
\* + call_gas_limit + verification_gas_limit * k) fits in 256 bits, with k = 3
\* when paymaster_and_data has at least 20 bytes and k = 1 otherwise (1 to 19
\* bytes included), max_gas_cost returns exactly that cost.
C11_MaxGasCost ==
    (out # NoValue /\ out.call = "max_gas_cost" /\ Fits256(CostOverNaturals(op)))
        => out.result = Ret(Low256(CostOverNaturals(op)))

\* what each accounting operation computes, over the naturals
OverNaturals(call, o) ==
    CASE call = "max_gas_cost" -> CostOverNaturals(o)
      [] call = "total_verification_gas_limit" ->
            BigMul(o.verification_gas_limit,
                   <<IF Len(o.paymaster_and_data) >= 20 THEN 2 ELSE 1>>)
      [] call = "required_pre_execution_buffer" ->
            BigAdd(o.verification_gas_limit, <<19, 136>>)

GasAccounting ==
    {"max_gas_cost", "total_verification_gas_limit", "required_pre_execution_buffer"}

\* C12: max_gas_cost, total_verification_gas_limit (the verification gas limit,
\* doubled when a paymaster is present) and required_pre_execution_buffer (the
\* verification gas limit plus 5000) return a value for every well-typed
\* operation, the outputs of the three fill policies included: they never fail,
\* and the value is the true one, never one wrapped around 2^256.
C12_GasAccountingIsTotal ==
    (out # NoValue /\ out.call \in GasAccounting)
        => /\ ~out.result.panicked
           /\ Fits256(OverNaturals(out.call, op))
           /\ out.result.val = Low256(OverNaturals(out.call, op))

\* ---- claims on the entities ----

\* the entities of role kind in a list of entities
OfKind(es, kind) == {es[i] : i \in {k \in DOMAIN es : es[k].kind = kind}}

\* the one entity a field of at least 20 bytes names, none for a shorter field
NamedBy(kind, field) ==
    IF Len(field) >= 20
    THEN {[kind |-> kind, address |-> [i \in 1..20 |-> field[i]]]}
    ELSE {}

\* C13: entities(op) contains (Account, sender) always, (Factory, a) exactly
\* when init_code has at least 20 bytes, a being its first 20 bytes, and
\* (Paymaster, a) exactly when paymaster_and_data has at least 20 bytes, a
\* being its first 20 bytes; it never contains an Aggregator, and each role
\* appears at most once.  A field of 19 bytes yields no entity, one of exactly
\* 20 bytes yields one.
C13_Entities ==
    (out # NoValue /\ out.call = "entities")
        => LET es == out.result.val
           IN  /\ ~out.result.panicked
               /\ OfKind(es, "Account") = {[kind |-> "Account", address |-> op.sender]}
               /\ OfKind(es, "Factory") = NamedBy("Factory", op.init_code)
               /\ OfKind(es, "Paymaster") = NamedBy("Paymaster", op.paymaster_and_data)
               /\ OfKind(es, "Aggregator") = {}
               /\ \A i, j \in DOMAIN es : es[i].kind = es[j].kind => i = j
               /\ \A i \in DOMAIN es : es[i].kind \in {"Account", "Factory", "Paymaster"}

\* the entities of an operation whose init_code and paymaster_and_data have
\* exactly 20 bytes each were asked for: there are three
C13_Witness ==
    /\ out # NoValue
    /\ out.call = "entities"
    /\ Len(op.init_code) = 20
    /\ Len(op.paymaster_and_data) = 20
    /\ Len(out.result.val) = 3

(***************************************************************************)
(* src/crates/sim/src/action/fund.rs, src/crates/rpc/src/scroll.rs         *)
(***************************************************************************)

\* Result values
Ok(x) == [ok |-> TRUE, val |-> x]
Err(e) == [ok |-> FALSE, err |-> e]

\* the value of a decimal character
DecimalDigit ==
    [c \in {"0", "1", "2", "3", "4", "5", "6", "7", "8", "9"} |->
        CASE c = "0" -> 0 [] c = "1" -> 1 [] c = "2" -> 2 [] c = "3" -> 3
          [] c = "4" -> 4 [] c = "5" -> 5 [] c = "6" -> 6 [] c = "7" -> 7
          [] c = "8" -> 8 [] c = "9" -> 9]

\* the number a string of decimal characters writes, as a natural number:
\* from the first character on, ten times the number so far plus the digit
ParseDecimal(chars) ==
    LET Parsed[p \in Nat \X Seq(Nat)] ==
            LET n == p[1]
                sofar == p[2]
            IN  IF n > Len(chars) THEN sofar
                ELSE Parsed[<<n + 1,
                            Trim(BigAdd(BigMul(sofar, <<10>>),
                                        <<DecimalDigit[chars[n]]>>))>>]
    IN  Parsed[<<1, <<>>>>]

\* parse_ether that scales by 10^17
Mut_parse_ether(eth) ==
    LET dots == {i \in 1..Len(eth) : eth[i] = "."}
        point == IF dots = {} THEN Len(eth) + 1 ELSE SetMin(dots)
        whole == SubSeq(eth, 1, point - 1)
        fraction == SubSeq(eth, point + 1, Len(eth))
        wei == ParseDecimal(whole \o fraction \o [i \in 1..(17 - Len(fraction)) |-> "0"])
    IN  IF Len(fraction) > 17 \/ ~Fits256(wei)
        THEN Err("ConversionError")
        ELSE Ok(Low256(wei))

\* ethers::utils::parse_ether(eth), eth the text of the amount (0.01 prints as
\* "0.01"): parse_units with 18 decimals, the digits after the point padded to
\* 18 and the whole read as an integer number of wei
parse_ether(eth) ==
    LET dots == {i \in 1..Len(eth) : eth[i] = "."}
        point == IF dots = {} THEN Len(eth) + 1 ELSE SetMin(dots)
        whole == SubSeq(eth, 1, point - 1)
        fraction == SubSeq(eth, point + 1, Len(eth))
        wei == ParseDecimal(whole \o fraction \o [i \in 1..(18 - Len(fraction)) |-> "0"])
    IN  IF Len(fraction) > 18 \/ ~Fits256(wei)
        THEN Err("ConversionError")
        ELSE Ok(Low256(wei))

\* ---- inputs of the wallet part ----

\* the owners of a createWallet request
OwnerLists == { <<Addr(1)>>, <<Addr(1), Addr(2)>> }

\* the nonces of a createWallet request
Nonces == {U256_ZERO, U256From(7)}

\* the balances the provider may report: none, one wei below 0.01 ether,
\* 0.01 ether, one wei above, and the largest
Balances ==
    { U256_ZERO,
      from_big_endian(<<35, 134, 242, 111, 192, 255, 255>>),
      from_big_endian(<<35, 134, 242, 111, 193, 0, 0>>),
      from_big_endian(<<35, 134, 242, 111, 193, 0, 1>>),
      U256_MAX }

\* ---- actions of the wallet part ----

\* the call in progress returns ret
Returned(ret) == [wallet.calls EXCEPT ![Len(wallet.calls)].ret = ret]

\* ScrollApi::create_wallet is called with the request's owners and nonce and
\* calls Funder::create_wallet
CreateWallet ==
    /\ wallet = NoValue
    /\ \E owners \in OwnerLists, nonce \in Nonces :
         wallet' = [pc |-> "get_address", owners |-> owners, nonce |-> nonce,
                    calls |-> <<>>, address |-> NoValue, balance |-> NoValue,
                    result |-> NoValue, response |-> NoValue]
    /\ UNCHANGED <<opVars, fillVars, errVars, out>>

\* fund.rs:36, the call: self.get_address(owners.clone(), nonce)
CallGetAddress ==
    /\ wallet # NoValue
    /\ wallet.pc = "get_address"
    /\ wallet' = [wallet EXCEPT
         !.pc = "await_get_address",
         !.calls = Append(@, [fn |-> "get_address",
                              args |-> <<wallet.owners, wallet.nonce>>,
                              ret |-> NoValue])]
    /\ UNCHANGED <<opVars, fillVars, errVars, out>>

\* fund.rs:36, the await and the ?: the factory answers with an address, or the
\* call fails and create_wallet returns the error
ReturnGetAddress ==
    /\ wallet # NoValue
    /\ wallet.pc = "await_get_address"
    /\ \/ \E a \in Addresses :
            wallet' = [wallet EXCEPT !.pc = "get_balance", !.address = a,
                                     !.calls = Returned(Ok(a))]
       \/ wallet' = [wallet EXCEPT !.pc = "returned",
                                   !.calls = Returned(Err("Failed to get address")),
                                   !.result = Err("Failed to get address")]
    /\ UNCHANGED <<opVars, fillVars, errVars, out>>

\* fund.rs:37, the call: self.get_balance(address)
CallGetBalance ==
    /\ wallet # NoValue
    /\ wallet.pc = "get_balance"
    /\ wallet' = [wallet EXCEPT
         !.pc = "await_get_balance",
         !.calls = Append(@, [fn |-> "get_balance", args |-> <<wallet.address>>,
                              ret |-> NoValue])]
    /\ UNCHANGED <<opVars, fillVars, errVars, out>>

\* fund.rs:37, the await and the ?: the provider reports a balance, or the call
\* fails and create_wallet returns the error
ReturnGetBalance ==
    /\ wallet # NoValue
    /\ wallet.pc = "await_get_balance"
    /\ \/ \E b \in Balances :
            wallet' = [wallet EXCEPT !.pc = "check_balance", !.balance = b,
                                     !.calls = Returned(Ok(b))]
       \/ wallet' = [wallet EXCEPT !.pc = "returned",
                                   !.calls = Returned(Err("Failed to get balance")),
                                   !.result = Err("Failed to get balance")]
    /\ UNCHANGED <<opVars, fillVars, errVars, out>>

\* fund.rs:38-45: the required balance is parse_ether(0.01)?; a smaller balance
\* makes create_wallet return an error
CheckBalance ==
    /\ wallet # NoValue
    /\ wallet.pc = "check_balance"
    /\ LET required_balance == parse_ether(<<"0", ".", "0", "1">>)
       IN  wallet' =
             IF ~required_balance.ok
             THEN [wallet EXCEPT !.pc = "returned", !.result = required_balance]
             ELSE IF U256Lt(wallet.balance, required_balance.val)
             THEN [wallet EXCEPT !.pc = "returned",
                                 !.result = Err("Insufficient balance")]
             ELSE [wallet EXCEPT !.pc = "create_account"]
    /\ UNCHANGED <<opVars, fillVars, errVars, out>>

\* fund.rs:49, the call: self.create_account(owners, nonce)
CallCreateAccount ==
    /\ wallet # NoValue
    /\ wallet.pc = "create_account"
    /\ wallet' = [wallet EXCEPT
         !.pc = "await_create_account",
         !.calls = Append(@, [fn |-> "create_account",
                              args |-> <<wallet.owners, wallet.nonce>>,
                              ret |-> NoValue])]
    /\ UNCHANGED <<opVars, fillVars, errVars, out>>

\* fund.rs:49-50, the await and the ?: the factory answers with the wallet's
\* address and create_wallet returns Ok(()), or the call fails and
\* create_wallet returns the error
ReturnCreateAccount ==
    /\ wallet # NoValue
    /\ wallet.pc = "await_create_account"
    /\ \/ \E a \in Addresses :
            wallet' = [wallet EXCEPT !.pc = "returned", !.calls = Returned(Ok(a)),
                                     !.result = Ok(<<>>)]
       \/ wallet' = [wallet EXCEPT !.pc = "returned",
                                   !.calls = Returned(Err("Failed to create account")),
                                   !.result = Err("Failed to create account")]
    /\ UNCHANGED <<opVars, fillVars, errVars, out>>

\* scroll.rs:67-70: Funder::create_wallet has returned; an error goes back with
\* the context "should create wallet", success goes back as "ok"
Respond ==
    /\ wallet # NoValue
    /\ wallet.pc = "returned"
    /\ wallet' = [wallet EXCEPT
         !.pc = "responded",
         !.response = IF wallet.result.ok THEN Ok("ok")
                      ELSE Err(<<"should create wallet", wallet.result.err>>)]
    /\ UNCHANGED <<opVars, fillVars, errVars, out>>

\* no request is being served
WalletInit ==
    /\ wallet = NoValue
    /\ op = NoValue
    /\ hashed = NoValue
    /\ partial = NoValue
    /\ caps = NoValue
    /\ ov = NoValue
    /\ policy = "none"
    /\ rand = NoValue
    /\ origin = NoValue
    /\ rounds = 0
    /\ out = NoValue
    /\ data = NoValue
    /\ error = NoValue
    /\ rpc = NoValue

WalletNext ==
    \/ CreateWallet
    \/ CallGetAddress
    \/ ReturnGetAddress
    \/ CallGetBalance
    \/ ReturnGetBalance
    \/ CheckBalance
    \/ CallCreateAccount
    \/ ReturnCreateAccount
    \/ Respond

SpecWallet == WalletInit /\ [][WalletNext]_vars

\* ---- claims on the wallet part ----

\* 0.01 ether in wei, 10^16 = 0x2386F26FC10000
HundredthOfAnEther == Repeat(0, 25) \o <<35, 134, 242, 111, 193, 0, 0>>

ReturnedOk(c) == c.ret # NoValue /\ c.ret.ok

ReturnedErr(c) == c.ret # NoValue /\ ~c.ret.ok

\* get_address failed, or get_balance failed or reported less than 0.01 ether
WalletRefused ==
    \/ Len(wallet.calls) >= 1 /\ ReturnedErr(wallet.calls[1])
    \/ /\ Len(wallet.calls) >= 2
       /\ \/ ReturnedErr(wallet.calls[2])
          \/ /\ ReturnedOk(wallet.calls[2])
             /\ U256Lt(wallet.calls[2].ret.val, HundredthOfAnEther)

\* C15: in every run of create_wallet(owners, nonce) the collaborator calls
\* happen in the order get_address, get_balance, create_account, each at most
\* once; create_account is invoked only after get_balance returned, for the
\* address get_address derived, a balance of at least 0.01 ether; if
\* get_address or get_balance fails or the balance is below 0.01 ether, no
\* later step is invoked and create_wallet returns an error; the RPC method
\* answers "ok" only when create_account was invoked and succeeded, and
\* answers with an error otherwise.
C15_CreateWalletSequence ==
    wallet # NoValue =>
      LET calls == wallet.calls
      IN  /\ Len(calls) <= 3
          /\ [i \in 1..Len(calls) |-> calls[i].fn]
               = SubSeq(<<"get_address", "get_balance", "create_account">>, 1, Len(calls))
          /\ Len(calls) = 3 =>
               /\ ReturnedOk(calls[1])
               /\ ReturnedOk(calls[2])
               /\ calls[2].args = <<calls[1].ret.val>>
               /\ ~U256Lt(calls[2].ret.val, HundredthOfAnEther)
          /\ (Len(calls) >= 1 /\ ReturnedErr(calls[1])) => Len(calls) = 1
          /\ WalletRefused => Len(calls) <= 2
          /\ (WalletRefused /\ wallet.result # NoValue) => ~wallet.result.ok
          /\ wallet.response # NoValue =>
               IF Len(calls) = 3 /\ ReturnedOk(calls[3])
               THEN wallet.response = Ok("ok")
               ELSE ~wallet.response.ok

\* C15's case: a request was answered "ok" after the provider reported a
\* balance of exactly 0.01 ether and create_account succeeded
C15_Witness ==
    /\ wallet # NoValue
    /\ wallet.pc = "responded"
    /\ wallet.response = Ok("ok")
    /\ wallet.balance = HundredthOfAnEther
    /\ Len(wallet.calls) = 3
    /\ ReturnedOk(wallet.calls[3])

====
